---- MODULE Spec2Model ----
(***************************************************************************)
(* Unified scraper actor: the entry point (main), the crawler's request    *)
(* retry loop, the router and the three workflow handlers (HR Cockpit,     *)
(* Profiling Values, Profiling Values Soll), with the progress reporter    *)
(* and the result store they write to.                                     *)
(*                                                                         *)
(* One behaviour of Spec is one run of the actor.  The repository holds    *)
(* two entry points: src/main.js (run id from the environment) and the     *)
(* variant that takes internalRunId from the input; `build` says which.    *)
(*                                                                         *)
(* SpecParts exercises, one call per behaviour, the parts of a run whose   *)
(* result depends on what the site serves: the download of one artifact    *)
(* (file name, button label), the extraction of the Soll profile page,     *)
(* the registry lookup, and the download events of a page on which         *)
(* several artifacts are downloaded one after another.                     *)
(***************************************************************************)
EXTENDS Integers, Sequences, FiniteSets, TLC

\* ------------------------------------------------------------------ bounds
\* Largest number of download links / report buttons the target page shows.
MaxLinks == 4

\* ------------------------------------------------------- program constants
\* PlaywrightCrawler option: retries of a request whose handler threw.
maxRequestRetries == 3
\* downloadWithRetry / downloadCSVWithRetry default parameter.
maxRetries == 3
\* pRetry option `retries` in handleProfilingValues.
pRetryRetries == 5
\* Initial (provisional) totals of the three handlers.
HRInitialTotal == 8
PVInitialTotal == 6
SollInitialTotal == 5
\* page.waitForTimeout(2000) between two attempts of an HR retry wrapper (ms).
retryWait == 2000
\* pRetry option `minTimeout` in handleProfilingValues (ms).
minTimeout == 2000

\* ------------------------------------------------------------ config.js
HRTypes == {"HR_COCKPIT", "HR_COCKPIT_SOLL"}
PVTypes == {"PROFILING_VALUES", "PROFILING_VALUES_SOLL"}

CONFIG_CsvEverywhere ==
  [ct \in HRTypes \cup PVTypes |->
     IF ct \in HRTypes
       THEN [fileTypes |-> <<"Standard-Report", "Assessment-Report", "PPT-Report">>,
             includeCSV |-> TRUE,
             envCredentials |-> [user |-> "HR_COCKPIT_USER",
                                 password |-> "HR_COCKPIT_PASSWORD"]]
       ELSE [fileTypes |-> IF ct = "PROFILING_VALUES"
                             THEN <<"all_reports">> ELSE <<"metadata_only">>,
             includeCSV |-> TRUE,
             envCredentials |-> [user |-> "PROFILING_VALUES_USER",
                                 password |-> "PROFILING_VALUES_PASSWORD"]]]

CONFIG ==
  [ct \in HRTypes \cup PVTypes |->
     IF ct \in HRTypes
       THEN [fileTypes |-> <<"Standard-Report", "Assessment-Report", "PPT-Report">>,
             includeCSV |-> TRUE,
             envCredentials |-> [user |-> "HR_COCKPIT_USER",
                                 password |-> "HR_COCKPIT_PASSWORD"]]
       ELSE [fileTypes |-> IF ct = "PROFILING_VALUES"
                             THEN <<"all_reports">> ELSE <<"metadata_only">>,
             includeCSV |-> FALSE,
             envCredentials |-> [user |-> "PROFILING_VALUES_USER",
                                 password |-> "PROFILING_VALUES_PASSWORD"]]]

\* Object.keys(CONFIG).includes(codeType): own keys only, compared with ===.
isValidCodeType(ct) == ct \in DOMAIN CONFIG

\* getConfig throws `Invalid code type: ...` for any other argument; the throw
\* is the value [error |-> ...] here, told from an entry by its fields.
getConfig_NoThrow(ct) ==
  IF ~isValidCodeType(ct)
    THEN [undefined |-> TRUE]
    ELSE CONFIG[ct]

getConfig(ct) ==
  IF ~isValidCodeType(ct)
    THEN [error |-> "Invalid code type"]
    ELSE CONFIG[ct]

getValidCodeTypes == DOMAIN CONFIG

\* ------------------------------------------------------------------ inputs
Builds == {"main", "internalRunId"}
Codes == {"", "ABC123"}                       \* "" stands for a missing code
CodeTypes == {""} \cup DOMAIN CONFIG \cup {"BOGUS"}
RunIds == {"", "run-1"}                       \* "" stands for no run id
AllEnv == {"HR_COCKPIT_USER", "HR_COCKPIT_PASSWORD",
           "PROFILING_VALUES_USER", "PROFILING_VALUES_PASSWORD",
           "FRONT_URL", "ACTOR_SECRET"}
\* The environments explored: everything set, or one variable unset/empty.
EnvChoices == {AllEnv,
               AllEnv \ {"HR_COCKPIT_USER"},
               AllEnv \ {"PROFILING_VALUES_PASSWORD"},
               AllEnv \ {"ACTOR_SECRET"}}
\* What the progress endpoint does with a POST: answer 2xx, answer non-2xx,
\* fail at the network level (fetch rejects), or never answer.
Endpoints == {"2xx", "non2xx", "network", "hang"}

VARIABLES
  build,      \* which entry point runs
  code,       \* input.code
  codeType,   \* input.codeType
  runId,      \* APIFY_ACTOR_RUN_ID (build "main") or input.internalRunId
  env,        \* the environment variables that are set and non-empty
  endpoint,   \* how the progress endpoint treats the next POST
  mpc,        \* position of main
  exitCode,   \* process exit code, -1 while running
  lastError,  \* message class of the error last thrown ("" none)
  retryCount, \* request.retryCount of the crawler's single request
  h,          \* the running handler invocation: its position and locals
  prog,       \* what the progress endpoint has been sent
  dataset,    \* the result store: records appended, in order
  dl,         \* one artifact's download: wrapper call, store write, push
  soll,       \* one Soll profile page and what is extracted from it
  reg,        \* one call of the registry (config.js)
  pg          \* one page on which artifacts are downloaded one after another

vars == <<build, code, codeType, runId, env, endpoint, mpc, exitCode,
          lastError, retryCount, h, prog, dataset, dl, soll, reg, pg>>

\* A part that is not exercised in the behaviour at hand.
Parked == [pc |-> "parked"]

parts == <<dl, soll, reg, pg>>

inputs == <<build, code, codeType, runId, env, endpoint, parts>>

\* ------------------------------------------------------- progressUtils.js
NoUpdate == [status |-> "NONE", done |-> -1, total |-> -1]

\* sendProgressUpdate: skipped without FRONT_URL / ACTOR_SECRET; otherwise one
\* POST {runId, done, total, status}.  A 2xx or non-2xx answer is logged; a
\* rejected fetch is caught and logged: nothing is raised into the caller.
\* p.last is the update last posted, p.raised whether a call ever threw.
sendProgressUpdate_Propagate(p, done, total, status) ==
  IF ~({"FRONT_URL", "ACTOR_SECRET"} \subseteq env)
    THEN p
    ELSE [p EXCEPT !.last = [status |-> status, done |-> done, total |-> total],
                   !.completed = @ + (IF status = "COMPLETED" THEN 1 ELSE 0),
                   !.raised = @ \/ endpoint = "network"]

sendProgressUpdate(p, done, total, status) ==
  IF ~({"FRONT_URL", "ACTOR_SECRET"} \subseteq env)
    THEN p
    ELSE [p EXCEPT !.last = [status |-> status, done |-> done, total |-> total],
                   !.completed = @ + (IF status = "COMPLETED" THEN 1 ELSE 0)]

\* sendErrorUpdate: POST {runId, status: FAILED, error}; no done/total pair.
\* Same handling of the answer as sendProgressUpdate.
sendErrorUpdate(p) ==
  IF ~({"FRONT_URL", "ACTOR_SECRET"} \subseteq env)
    THEN p
    ELSE [p EXCEPT !.last = [status |-> "FAILED", done |-> -1, total |-> -1],
                   !.failed = @ + 1]

\* `await fetch(...)` in an update call this run makes never settles: the
\* call is made (a run id, both endpoint variables) and the endpoint never
\* answers.  The fetch carries no timeout or abort signal.
fetchHangs ==
  /\ runId # ""
  /\ {"FRONT_URL", "ACTOR_SECRET"} \subseteq env
  /\ endpoint = "hang"

\* The call sites' `if (runId) { await sendProgressUpdate(...) }`.
report_Always(p, done, total, status) ==
  sendProgressUpdate(p, done, total, status)

report(p, done, total, status) ==
  IF runId # "" THEN sendProgressUpdate(p, done, total, status) ELSE p

\* ------------------------------------------------------- handler locals
\* A handler invocation that has not started / the locals at its entry.
NewHandler(total) ==
  [pc |-> "login", currentStep |-> 0, totalSteps |-> total, assigns |-> 0,
   log |-> [current |-> 0, total |-> total],
   n |-> 0, i |-> 0, attempt |-> 0, failLogs |-> 0, ret |-> 0, skipped |-> 0,
   delay |-> 0, page |-> FALSE, listing |-> FALSE, reports |-> <<>>]

InitialTotal(ct) ==
  IF ct \in HRTypes THEN HRInitialTotal
  ELSE IF ct = "PROFILING_VALUES" THEN PVInitialTotal
  ELSE SollInitialTotal

Idle == [NewHandler(0) EXCEPT !.pc = "idle"]

\* currentStep++ followed by logStep({current, total}).
countStep(hh) ==
  [hh EXCEPT !.currentStep = @ + 1,
             !.log = [current |-> hh.currentStep + 1, total |-> hh.totalSteps]]

\* ------------------------------------------------------------------- Init
Init ==
  /\ build \in Builds
  /\ code \in Codes
  /\ codeType \in CodeTypes
  /\ runId \in RunIds
  /\ env \in EnvChoices
  /\ endpoint \in Endpoints
  /\ mpc = "validate"
  /\ exitCode = -1
  /\ lastError = ""
  /\ retryCount = 0
  /\ h = Idle
  /\ prog = [last |-> NoUpdate, completed |-> 0, failed |-> 0, raised |-> FALSE]
  /\ dataset = <<>>
  /\ dl = Parked /\ soll = Parked /\ reg = Parked /\ pg = Parked

\* ---------------------------------------------------------------- main
\* The validation at the head of main's try block; "" when the input passes.
ValidationError ==
  IF code = "" THEN "MissingCode"
  ELSE IF codeType = "" THEN "MissingCodeType"
  ELSE IF ~isValidCodeType(codeType) THEN "InvalidCodeType"
  ELSE IF build = "internalRunId" /\ runId = "" THEN "MissingRunId"
  ELSE ""

\* main, from Actor.getInput() to the STARTING update.
Validate_StartFirst ==
  /\ mpc = "validate"
  /\ prog' = report(prog, 0, 1, "STARTING")
  /\ IF ValidationError # ""
       THEN /\ mpc' = "catch"
            /\ lastError' = ValidationError
       ELSE /\ mpc' = (IF fetchHangs THEN "awaiting" ELSE "setup")
            /\ lastError' = lastError
  /\ UNCHANGED <<inputs, exitCode, retryCount, h, dataset>>

Validate ==
  /\ mpc = "validate"
  /\ IF ValidationError # ""
       THEN /\ mpc' = "catch"
            /\ lastError' = ValidationError
            /\ prog' = prog
       ELSE /\ mpc' = (IF fetchHangs THEN "awaiting" ELSE "setup")
            /\ lastError' = lastError
            /\ prog' = report(prog, 0, 1, "STARTING")
  /\ UNCHANGED <<inputs, exitCode, retryCount, h, dataset>>

\* main, from the crawler's construction to the start of crawler.run: the
\* set-up (proxy configuration, browser launch) either throws into main's
\* catch block or the crawler starts its first handler invocation.
SetupCrawler ==
  /\ mpc = "setup"
  /\ \E ok \in BOOLEAN :
       IF ok
         THEN /\ mpc' = "crawl"
              /\ h' = NewHandler(InitialTotal(codeType))
              /\ lastError' = lastError
         ELSE /\ mpc' = "catch"
              /\ h' = h
              /\ lastError' = "CrawlerSetupFailed"
  /\ UNCHANGED <<inputs, exitCode, retryCount, prog, dataset>>

\* main's tail after crawler.run resolved: the COMPLETED 1/1 update, then
\* Actor.exit().
Complete_DoneZero ==
  /\ mpc = "tail"
  /\ prog' = report(prog, 0, 1, "COMPLETED")
  /\ mpc' = "exited"
  /\ exitCode' = 0
  /\ UNCHANGED <<inputs, lastError, retryCount, h, dataset>>

Complete ==
  /\ mpc = "tail"
  /\ prog' = report(prog, 1, 1, "COMPLETED")
  /\ mpc' = "exited"
  /\ exitCode' = 0
  /\ UNCHANGED <<inputs, lastError, retryCount, h, dataset>>

\* The error record main's catch block pushes: {error, stack, runId}.
CatchRecord ==
  [kind |-> "error", code |-> "", codeType |-> "", error |-> lastError,
   runId |-> runId, reports |-> <<>>]

\* main's catch block.  In src/main.js the run id is read again from the
\* environment.  In the internalRunId build the block reads `runId`, a const
\* declared inside the try block and so not in scope: evaluating it throws a
\* ReferenceError out of the catch block, and the rejected top-level await
\* ends the process with exit code 1 before anything is sent or pushed.
Catch ==
  /\ mpc = "catch"
  /\ IF build = "main"
       THEN /\ prog' = (IF runId # "" THEN sendErrorUpdate(prog) ELSE prog)
            /\ IF fetchHangs
                 THEN /\ dataset' = dataset
                      /\ mpc' = "awaiting"
                      /\ exitCode' = exitCode
                 ELSE /\ dataset' = Append(dataset, CatchRecord)
                      /\ mpc' = "exited"
                      /\ exitCode' = 1
       ELSE /\ prog' = prog
            /\ dataset' = dataset
            /\ mpc' = "crashed"
            /\ exitCode' = 1
  /\ UNCHANGED <<inputs, lastError, retryCount, h>>

\* ------------------------------------------------------------- routes.js
\* The router's switch on codeType.
Route_SollUnrouted(ct) ==
  IF ct \in {"HR_COCKPIT", "HR_COCKPIT_SOLL"} THEN "handleHRCockpit"
  ELSE IF ct = "PROFILING_VALUES" THEN "handleProfilingValues"
  ELSE "unknown"

Route(ct) ==
  IF ct \in {"HR_COCKPIT", "HR_COCKPIT_SOLL"} THEN "handleHRCockpit"
  ELSE IF ct = "PROFILING_VALUES" THEN "handleProfilingValues"
  ELSE IF ct = "PROFILING_VALUES_SOLL" THEN "handleProfilingValuesSoll"
  ELSE "unknown"

\* Position `pc` of handler `name` is where the run stands.
At(name, pc) == mpc = "crawl" /\ Route(codeType) = name /\ h.pc = pc

\* `!user || !password` on the two variables the configuration names.
missingCredentials_UserOnly(ct) ==
  getConfig(ct).envCredentials.user \notin env

missingCredentials(ct) ==
  \/ getConfig(ct).envCredentials.user \notin env
  \/ getConfig(ct).envCredentials.password \notin env

\* A step's page operations threw: the handler's catch logs and re-throws,
\* the router's catch logs and re-throws, the crawler sees a failed request.
throw(hh, err) == [hh EXCEPT !.pc = "threw"]

\* The catch block around one artifact's download (HR report link, HR CSV
\* export, Profiling Values report): logError, then on to `next`.
skipArtifact_Rethrow(hh, inLoop, next) == [hh EXCEPT !.pc = "threw"]

skipArtifact_Uncount(hh, inLoop, next) ==
  [hh EXCEPT !.skipped = @ + 1,
             !.currentStep = @ - 1,
             !.i = IF inLoop THEN @ + 1 ELSE @,
             !.pc = next]

skipArtifact(hh, inLoop, next) ==
  [hh EXCEPT !.skipped = @ + 1,
             !.i = IF inLoop THEN @ + 1 ELSE @,
             !.pc = next]

\* ------------------------------------------------- hrCockpitHandler.js
\* One iteration of downloadWithRetry's loop: what attempt `attempt` leads to
\* when its body succeeded (ok) or threw.
downloadWithRetry_OneMore(attempt, ok) ==
  IF attempt > maxRetries + 1 THEN "fallthrough"
  ELSE IF ok THEN "return"
  ELSE IF attempt = maxRetries + 1 THEN "throw"
  ELSE "retry"

downloadWithRetry(attempt, ok) ==
  IF attempt > maxRetries THEN "fallthrough"
  ELSE IF ok THEN "return"
  ELSE IF attempt = maxRetries THEN "throw"
  ELSE "retry"

\* The wait between a failed attempt and the next one in both HR wrappers.
retryDelay(attempt) == retryWait

\* One iteration of downloadCSVWithRetry's loop.
downloadCSVWithRetry(attempt, ok) ==
  IF attempt > maxRetries THEN "fallthrough"
  ELSE IF ok THEN "return"
  ELSE IF attempt = maxRetries THEN "throw"
  ELSE "retry"

\* config.fileTypes[i] || `Report-${i + 1}` (i is 0-based).
ReportNames == [k \in 1..9 |-> <<"Report-1", "Report-2", "Report-3", "Report-4",
                                "Report-5", "Report-6", "Report-7", "Report-8",
                                "Report-9">>[k]]

fileTypeOf_OneBased(ct, i) ==
  IF i + 2 <= Len(getConfig(ct).fileTypes)
    THEN getConfig(ct).fileTypes[i + 2]
    ELSE ReportNames[i + 2]

fileTypeOf_Clamped(ct, i) ==
  IF i + 1 <= Len(getConfig(ct).fileTypes)
    THEN getConfig(ct).fileTypes[i + 1]
    ELSE getConfig(ct).fileTypes[Len(getConfig(ct).fileTypes)]

fileTypeOf(ct, i) ==
  IF i + 1 <= Len(getConfig(ct).fileTypes)
    THEN getConfig(ct).fileTypes[i + 1]
    ELSE ReportNames[i + 1]

\* totalSteps as recomputed once the links are counted.
HRTotalSteps(ct, n) == 4 + n + (IF getConfig(ct).includeCSV THEN 1 ELSE 0) + 1

\* Where handleHRCockpit goes once link i (0-based) is finished, or from the
\* link count when there is no link at all (i = -1).
HRAfterLink_CsvEarly(ct, i, n) ==
  IF i + 2 < n THEN "dl"
  ELSE IF getConfig(ct).includeCSV THEN "csv"
  ELSE "save"

HRAfterLink(ct, i, n) ==
  IF i + 1 < n THEN "dl"
  ELSE IF getConfig(ct).includeCSV THEN "csv"
  ELSE "save"

\* STEP 1: count, log and report the step, check the credentials, then fill
\* and submit the login form (the first use of the page).
HRLogin ==
  /\ At("handleHRCockpit", "login")
  /\ prog' = report(prog, h.currentStep + 1, h.totalSteps, "RUNNING")
  /\ IF missingCredentials(codeType)
       THEN /\ h' = throw(countStep(h), "MissingCredentials")
            /\ lastError' = "MissingCredentials"
       ELSE \E ok \in BOOLEAN :
              IF ok
                THEN /\ h' = [countStep(h) EXCEPT !.page = TRUE, !.pc = "nav1"]
                     /\ lastError' = lastError
                ELSE /\ h' = throw([countStep(h) EXCEPT !.page = TRUE],
                                   "LoginFailed")
                     /\ lastError' = "LoginFailed"
  /\ UNCHANGED <<inputs, mpc, exitCode, retryCount, dataset>>

\* STEPS 2-4: the three menu clicks; each waits for its link and may time out.
HRNavigate ==
  /\ \E k \in 1..3 :
       /\ At("handleHRCockpit", <<"nav1", "nav2", "nav3">>[k])
       /\ prog' = report(prog, h.currentStep + 1, h.totalSteps, "RUNNING")
       /\ \E ok \in BOOLEAN :
            IF ok
              THEN /\ h' = [countStep(h) EXCEPT
                              !.pc = <<"nav2", "nav3", "find">>[k],
                              !.listing = (k = 3)]
                   /\ lastError' = lastError
              ELSE /\ h' = throw(countStep(h), "NavigationTimeout")
                   /\ lastError' = "NavigationTimeout"
  /\ UNCHANGED <<inputs, mpc, exitCode, retryCount, dataset>>

\* STEP 5: count, log and report the step; no row with the code throws;
\* otherwise the DE links of the row are counted and totalSteps is recomputed.
HRFindLinks ==
  /\ At("handleHRCockpit", "find")
  /\ prog' = report(prog, h.currentStep + 1, h.totalSteps, "RUNNING")
  /\ \E rows \in 0..1, n \in 0..MaxLinks :
       IF rows = 0
         THEN /\ h' = throw(countStep(h), "CodeNotFound")
              /\ lastError' = "CodeNotFound"
         ELSE /\ h' = [countStep(h) EXCEPT
                         !.n = n,
                         !.totalSteps = HRTotalSteps(codeType, n),
                         !.assigns = @ + 1,
                         !.pc = HRAfterLink(codeType, -1, n)]
              /\ lastError' = lastError
  /\ UNCHANGED <<inputs, mpc, exitCode, retryCount, dataset>>

\* STEP 6, head of one loop iteration: count and log the step, enter
\* downloadWithRetry.
HRDownloadBegin ==
  /\ At("handleHRCockpit", "dl")
  /\ h' = [countStep(h) EXCEPT !.attempt = 1, !.failLogs = 0, !.ret = 0,
                                !.delay = 0, !.pc = "dlTry"]
  /\ UNCHANGED <<inputs, mpc, exitCode, lastError, retryCount, prog, dataset>>

\* One attempt of downloadWithRetry for link h.i.  On return the caller
\* appends the artifact and reports the step; on the final throw the caller's
\* catch logs the error and the loop goes on with the next link.
HRDownloadAttempt ==
  /\ At("handleHRCockpit", "dlTry")
  /\ \E ok \in BOOLEAN :
       LET verdict == downloadWithRetry(h.attempt, ok)
           next == HRAfterLink(codeType, h.i, h.n)
       IN  CASE verdict = "return" ->
                  /\ h' = [h EXCEPT
                             !.reports = Append(@, [name |-> fileTypeOf(codeType, h.i),
                                                    link |-> h.i + 1]),
                             !.ret = h.attempt, !.i = @ + 1, !.pc = next]
                  /\ prog' = report(prog, h.currentStep, h.totalSteps, "RUNNING")
             [] verdict = "retry" ->
                  /\ h' = [h EXCEPT !.attempt = @ + 1, !.failLogs = @ + 1,
                                    !.delay = retryDelay(h.attempt)]
                  /\ prog' = prog
             [] verdict = "throw" ->
                  /\ h' = skipArtifact([h EXCEPT !.failLogs = @ + 1], TRUE, next)
                  /\ prog' = prog
             [] OTHER ->
                  /\ h' = skipArtifact(h, TRUE, next)
                  /\ prog' = prog
  /\ UNCHANGED <<inputs, mpc, exitCode, lastError, retryCount, dataset>>

\* STEP 7: count and log the step, enter downloadCSVWithRetry.
HRCsvBegin_Recount ==
  /\ At("handleHRCockpit", "csv")
  /\ h' = [countStep(h) EXCEPT !.attempt = 1, !.failLogs = 0, !.ret = 0,
                                !.delay = 0,
                                !.totalSteps = h.currentStep + 2,
                                !.assigns = @ + 1,
                                !.pc = "csvTry"]
  /\ UNCHANGED <<inputs, mpc, exitCode, lastError, retryCount, prog, dataset>>

HRCsvBegin ==
  /\ At("handleHRCockpit", "csv")
  /\ h' = [countStep(h) EXCEPT !.attempt = 1, !.failLogs = 0, !.ret = 0,
                                !.delay = 0, !.pc = "csvTry"]
  /\ UNCHANGED <<inputs, mpc, exitCode, lastError, retryCount, prog, dataset>>

\* One attempt of downloadCSVWithRetry, with the caller's handling of its
\* return (append 'Evaluate-daten', report) and of its final throw (log).
\* `left`: the attempt got as far as page.goto(report-creation URL), which
\* every attempt that returns has; nothing in the wrapper navigates back.
HRCsvAttempt ==
  /\ At("handleHRCockpit", "csvTry")
  /\ \E ok \in BOOLEAN, left \in BOOLEAN :
       /\ ok => left
       /\ LET verdict == downloadCSVWithRetry(h.attempt, ok)
              hh == [h EXCEPT !.listing = @ /\ ~left]
          IN  CASE verdict = "return" ->
                     /\ h' = [hh EXCEPT
                                !.reports = Append(@, [name |-> "Evaluate-daten",
                                                       link |-> 0]),
                                !.ret = h.attempt, !.pc = "save"]
                     /\ prog' = report(prog, h.currentStep, h.totalSteps, "RUNNING")
                [] verdict = "retry" ->
                     /\ h' = [hh EXCEPT !.attempt = @ + 1, !.failLogs = @ + 1,
                                        !.delay = retryDelay(h.attempt)]
                     /\ prog' = prog
                [] verdict = "throw" ->
                     /\ h' = skipArtifact([hh EXCEPT !.failLogs = @ + 1], FALSE, "save")
                     /\ prog' = prog
                [] OTHER ->
                     /\ h' = skipArtifact(hh, FALSE, "save")
                     /\ prog' = prog
  /\ UNCHANGED <<inputs, mpc, exitCode, lastError, retryCount, dataset>>

\* The record a handler pushes: {code, codeType, reports}.
ResultRecord(hh) ==
  [kind |-> "result", code |-> code, codeType |-> codeType, error |-> "",
   runId |-> "", reports |-> hh.reports]

\* STEP 8: count, log and report the step, then Dataset.pushData(result),
\* which appends the record or throws.
HRSave ==
  /\ At("handleHRCockpit", "save")
  /\ prog' = report(prog, h.currentStep + 1, h.totalSteps, "RUNNING")
  /\ \E ok \in BOOLEAN :
       IF ok
         THEN /\ h' = [countStep(h) EXCEPT !.pc = "final"]
              /\ dataset' = Append(dataset, ResultRecord(h))
              /\ lastError' = lastError
         ELSE /\ h' = throw(countStep(h), "PersistFailed")
              /\ dataset' = dataset
              /\ lastError' = "PersistFailed"
  /\ UNCHANGED <<inputs, mpc, exitCode, retryCount>>

\* The final update {done: totalSteps, total: totalSteps, COMPLETED}.
HRFinal ==
  /\ At("handleHRCockpit", "final")
  /\ prog' = report(prog, h.totalSteps, h.totalSteps, "COMPLETED")
  /\ h' = [h EXCEPT !.pc = "done"]
  /\ UNCHANGED <<inputs, mpc, exitCode, lastError, retryCount, dataset>>

\* --------------------------------------------- profilingValuesHandler.js
\* pRetry(fn, {retries: 5}): what attempt `attempt` leads to when fn resolved
\* (ok) or rejected; onFailedAttempt has logged the rejection in either case.
pRetry(attempt, ok) ==
  IF ok THEN "return"
  ELSE IF attempt >= pRetryRetries + 1 THEN "throw"
  ELSE "retry"

\* The wait pRetry inserts after failed attempt `attempt`: minTimeout times
\* factor^(attempt - 1), with the factor left at the library's default of 2
\* (no randomisation, no maxTimeout set).
pRetryDelay(attempt) == minTimeout * 2^(attempt - 1)

\* totalSteps as recomputed once the report buttons are counted.
PVTotalSteps(buttonCount) == 4 + buttonCount

\* STEP 1: count, log and report the step, check the credentials, then fill
\* and submit the login form (the first use of the page).
PVLogin ==
  /\ At("handleProfilingValues", "login")
  /\ prog' = report(prog, h.currentStep + 1, h.totalSteps, "RUNNING")
  /\ IF missingCredentials(codeType)
       THEN /\ h' = throw(countStep(h), "MissingCredentials")
            /\ lastError' = "MissingCredentials"
       ELSE \E ok \in BOOLEAN :
              IF ok
                THEN /\ h' = [countStep(h) EXCEPT !.page = TRUE, !.pc = "search"]
                     /\ lastError' = lastError
                ELSE /\ h' = throw([countStep(h) EXCEPT !.page = TRUE],
                                   "LoginFailed")
                     /\ lastError' = "LoginFailed"
  /\ UNCHANGED <<inputs, mpc, exitCode, retryCount, dataset>>

\* STEP 2: count, log and report the step; wait for the filter input (60 s)
\* and search for the code.
PVSearch ==
  /\ At("handleProfilingValues", "search")
  /\ prog' = report(prog, h.currentStep + 1, h.totalSteps, "RUNNING")
  /\ \E ok \in BOOLEAN :
       IF ok
         THEN /\ h' = [countStep(h) EXCEPT !.pc = "open"]
              /\ lastError' = lastError
         ELSE /\ h' = throw(countStep(h), "NavigationTimeout")
              /\ lastError' = "NavigationTimeout"
  /\ UNCHANGED <<inputs, mpc, exitCode, retryCount, dataset>>

\* STEP 3: count, log and report the step; wait for a cell with the code
\* (no such cell within 60 s: the wait throws) and click its report icon.
PVNavigate ==
  /\ At("handleProfilingValues", "open")
  /\ prog' = report(prog, h.currentStep + 1, h.totalSteps, "RUNNING")
  /\ \E outcome \in {"ok", "CodeNotFound", "NavigationTimeout"} :
       IF outcome = "ok"
         THEN /\ h' = [countStep(h) EXCEPT !.pc = "find"]
              /\ lastError' = lastError
         ELSE /\ h' = throw(countStep(h), outcome)
              /\ lastError' = outcome
  /\ UNCHANGED <<inputs, mpc, exitCode, retryCount, dataset>>

\* STEP 4: count, log and report the step; wait for the report box, count its
\* buttons and recompute totalSteps.
PVGetReports ==
  /\ At("handleProfilingValues", "find")
  /\ prog' = report(prog, h.currentStep + 1, h.totalSteps, "RUNNING")
  /\ \E ok \in BOOLEAN, buttonCount \in 0..MaxLinks :
       IF ok
         THEN /\ h' = [countStep(h) EXCEPT
                         !.n = buttonCount,
                         !.totalSteps = PVTotalSteps(buttonCount),
                         !.assigns = @ + 1,
                         !.pc = IF buttonCount > 0 THEN "dl" ELSE "save"]
              /\ lastError' = lastError
         ELSE /\ h' = throw(countStep(h), "NavigationTimeout")
              /\ lastError' = "NavigationTimeout"
  /\ UNCHANGED <<inputs, mpc, exitCode, retryCount, dataset>>

\* STEP 5, head of one loop iteration: currentStep++, then the buttons are
\* queried again and button i's label is read.  A different count, or a
\* button that cannot be read, throws out of the loop (this is outside the
\* per-report try); otherwise the step is logged and pRetry entered.
PVReportBegin ==
  /\ At("handleProfilingValues", "dl")
  /\ \E outcome \in {"ok", "ButtonCountChanged", "ButtonUnreadable"} :
       IF outcome = "ok"
         THEN /\ h' = [countStep(h) EXCEPT !.attempt = 1, !.failLogs = 0,
                                           !.ret = 0, !.delay = 0,
                                           !.pc = "dlTry"]
              /\ lastError' = lastError
         ELSE /\ h' = throw([h EXCEPT !.currentStep = @ + 1], outcome)
              /\ lastError' = outcome
  /\ UNCHANGED <<inputs, mpc, exitCode, retryCount, prog, dataset>>

\* One attempt of downloadAndUpload under pRetry for button h.i.  On return
\* the artifact is appended and the step reported; on the final rejection
\* the catch logs the error and the loop goes on with the next button.
PVReportAttempt ==
  /\ At("handleProfilingValues", "dlTry")
  /\ \E ok \in BOOLEAN :
       LET verdict == pRetry(h.attempt, ok)
           next == IF h.i + 1 < h.n THEN "dl" ELSE "save"
       IN  CASE verdict = "return" ->
                  /\ h' = [h EXCEPT
                             !.reports = Append(@, [name |-> "button", link |-> h.i + 1]),
                             !.ret = h.attempt, !.i = @ + 1, !.pc = next]
                  /\ prog' = report(prog, h.currentStep, h.totalSteps, "RUNNING")
             [] verdict = "retry" ->
                  /\ h' = [h EXCEPT !.attempt = @ + 1, !.failLogs = @ + 1,
                                    !.delay = pRetryDelay(h.attempt)]
                  /\ prog' = prog
             [] OTHER ->
                  /\ h' = skipArtifact([h EXCEPT !.failLogs = @ + 1], TRUE, next)
                  /\ prog' = prog
  /\ UNCHANGED <<inputs, mpc, exitCode, lastError, retryCount, dataset>>

\* STEP 6: count, log and report the step, then Dataset.pushData(result).
PVSave ==
  /\ At("handleProfilingValues", "save")
  /\ prog' = report(prog, h.currentStep + 1, h.totalSteps, "RUNNING")
  /\ \E ok \in BOOLEAN :
       IF ok
         THEN /\ h' = [countStep(h) EXCEPT !.pc = "final"]
              /\ dataset' = Append(dataset, ResultRecord(h))
              /\ lastError' = lastError
         ELSE /\ h' = throw(countStep(h), "PersistFailed")
              /\ dataset' = dataset
              /\ lastError' = "PersistFailed"
  /\ UNCHANGED <<inputs, mpc, exitCode, retryCount>>

\* The final update {done: totalSteps, total: totalSteps, COMPLETED}.
PVFinal ==
  /\ At("handleProfilingValues", "final")
  /\ prog' = report(prog, h.totalSteps, h.totalSteps, "COMPLETED")
  /\ h' = [h EXCEPT !.pc = "done"]
  /\ UNCHANGED <<inputs, mpc, exitCode, lastError, retryCount, dataset>>

\* ------------------------------------------ handleProfilingValuesSoll
\* STEP 1: count, log and report the step, check the credentials, then fill
\* and submit the login form (the first use of the page).
SollLogin ==
  /\ At("handleProfilingValuesSoll", "login")
  /\ prog' = report(prog, h.currentStep + 1, h.totalSteps, "RUNNING")
  /\ IF missingCredentials(codeType)
       THEN /\ h' = throw(countStep(h), "MissingCredentials")
            /\ lastError' = "MissingCredentials"
       ELSE \E ok \in BOOLEAN :
              IF ok
                THEN /\ h' = [countStep(h) EXCEPT !.page = TRUE, !.pc = "nav1"]
                     /\ lastError' = lastError
                ELSE /\ h' = throw([countStep(h) EXCEPT !.page = TRUE],
                                   "LoginFailed")
                     /\ lastError' = "LoginFailed"
  /\ UNCHANGED <<inputs, mpc, exitCode, retryCount, dataset>>

\* STEP 2: count, log and report the step; click 'PAT-Verwaltung'.
SollNavigate ==
  /\ At("handleProfilingValuesSoll", "nav1")
  /\ prog' = report(prog, h.currentStep + 1, h.totalSteps, "RUNNING")
  /\ \E ok \in BOOLEAN :
       IF ok
         THEN /\ h' = [countStep(h) EXCEPT !.pc = "search"]
              /\ lastError' = lastError
         ELSE /\ h' = throw(countStep(h), "NavigationTimeout")
              /\ lastError' = "NavigationTimeout"
  /\ UNCHANGED <<inputs, mpc, exitCode, retryCount, dataset>>

\* STEP 3: count, log and report the step; filter by the code, wait for a
\* cell with the code (none: the wait throws) and open its detail view.
SollSearch ==
  /\ At("handleProfilingValuesSoll", "search")
  /\ prog' = report(prog, h.currentStep + 1, h.totalSteps, "RUNNING")
  /\ \E outcome \in {"ok", "CodeNotFound", "NavigationTimeout"} :
       IF outcome = "ok"
         THEN /\ h' = [countStep(h) EXCEPT !.pc = "extract"]
              /\ lastError' = lastError
         ELSE /\ h' = throw(countStep(h), outcome)
              /\ lastError' = outcome
  /\ UNCHANGED <<inputs, mpc, exitCode, retryCount, dataset>>

\* STEP 4: count, log and report the step; wait for the PAT container, parse
\* the page into metadata and data rows, report the step once more.
SollExtract ==
  /\ At("handleProfilingValuesSoll", "extract")
  /\ prog' = report(prog, h.currentStep + 1, h.totalSteps, "RUNNING")
  /\ \E ok \in BOOLEAN :
       IF ok
         THEN /\ h' = [countStep(h) EXCEPT !.pc = "save"]
              /\ lastError' = lastError
         ELSE /\ h' = throw(countStep(h), "NavigationTimeout")
              /\ lastError' = "NavigationTimeout"
  /\ UNCHANGED <<inputs, mpc, exitCode, retryCount, dataset>>

\* STEP 5: count, log and report the step, then Dataset.pushData(result).
SollSave ==
  /\ At("handleProfilingValuesSoll", "save")
  /\ prog' = report(prog, h.currentStep + 1, h.totalSteps, "RUNNING")
  /\ \E ok \in BOOLEAN :
       IF ok
         THEN /\ h' = [countStep(h) EXCEPT !.pc = "final"]
              /\ dataset' = Append(dataset, ResultRecord(h))
              /\ lastError' = lastError
         ELSE /\ h' = throw(countStep(h), "PersistFailed")
              /\ dataset' = dataset
              /\ lastError' = "PersistFailed"
  /\ UNCHANGED <<inputs, mpc, exitCode, retryCount>>

\* The final update {done: totalSteps, total: totalSteps, COMPLETED}.
SollFinal ==
  /\ At("handleProfilingValuesSoll", "final")
  /\ prog' = report(prog, h.totalSteps, h.totalSteps, "COMPLETED")
  /\ h' = [h EXCEPT !.pc = "done"]
  /\ UNCHANGED <<inputs, mpc, exitCode, lastError, retryCount, dataset>>

\* --------------------------------------------------------- the crawler
\* The handler threw and the request has retries left: the crawler runs the
\* request handler again, on a fresh page, with fresh locals; the error of
\* the failed invocation is gone with it.
RetryRequest ==
  /\ mpc = "crawl"
  /\ h.pc = "threw"
  /\ retryCount < maxRequestRetries
  /\ retryCount' = retryCount + 1
  /\ h' = NewHandler(InitialTotal(codeType))
  /\ lastError' = ""
  /\ UNCHANGED <<inputs, mpc, exitCode, prog, dataset>>

\* The error record failedRequestHandler pushes.
FailedRecord ==
  [kind |-> "error", code |-> code, codeType |-> codeType, error |-> lastError,
   runId |-> runId, reports |-> <<>>]

\* The handler threw on the last retry: failedRequestHandler sends the FAILED
\* update and pushes the error record; crawler.run then resolves normally.
failedRequestHandler ==
  /\ mpc = "crawl"
  /\ h.pc = "threw"
  /\ retryCount >= maxRequestRetries
  /\ prog' = (IF runId # "" THEN sendErrorUpdate(prog) ELSE prog)
  /\ dataset' = Append(dataset, FailedRecord)
  /\ h' = [h EXCEPT !.pc = "failed"]
  /\ mpc' = "tail"
  /\ UNCHANGED <<inputs, exitCode, lastError, retryCount>>

\* The handler returned: the request is done and crawler.run resolves.
RequestHandled ==
  /\ mpc = "crawl"
  /\ h.pc = "done"
  /\ mpc' = "tail"
  /\ UNCHANGED <<inputs, exitCode, lastError, retryCount, h, prog, dataset>>

\* ------------------------------------------------------- the environment
\* The progress endpoint answers the next POST differently (an endpoint that
\* never answers stays that way).
EndpointTurns ==
  /\ endpoint # "hang"
  /\ mpc \notin {"exited", "crashed"}
  /\ endpoint' \in (Endpoints \ {"hang", endpoint})
  /\ UNCHANGED <<build, code, codeType, runId, env, mpc, exitCode, lastError,
                 retryCount, h, prog, dataset, parts>>

Next ==
  \/ Validate \/ SetupCrawler \/ Complete \/ Catch
  \/ HRLogin \/ HRNavigate \/ HRFindLinks \/ HRDownloadBegin
  \/ HRDownloadAttempt \/ HRCsvBegin \/ HRCsvAttempt \/ HRSave \/ HRFinal
  \/ PVLogin \/ PVSearch \/ PVNavigate \/ PVGetReports \/ PVReportBegin
  \/ PVReportAttempt \/ PVSave \/ PVFinal
  \/ SollLogin \/ SollNavigate \/ SollSearch \/ SollExtract \/ SollSave
  \/ SollFinal
  \/ RetryRequest \/ failedRequestHandler \/ RequestHandled
  \/ EndpointTurns

Spec == Init /\ [][Next]_vars

\* ============================================================= the parts
\* ------------------------------------------------- JavaScript string methods
UpperCase == "ABCDEFGHIJKLMNOPQRSTUVWXYZ"
LowerCase == "abcdefghijklmnopqrstuvwxyz"

\* The character at position k of s, as a string of length 1.
charAt(s, k) == SubSeq(s, k, k)

lowerChar(c) ==
  IF \E j \in 1..Len(UpperCase) : charAt(UpperCase, j) = c
    THEN charAt(LowerCase, CHOOSE j \in 1..Len(UpperCase) : charAt(UpperCase, j) = c)
    ELSE c

\* String.prototype.toLowerCase.
RECURSIVE toLowerCase(_)
toLowerCase(s) ==
  IF Len(s) = 0 THEN "" ELSE lowerChar(charAt(s, 1)) \o toLowerCase(Tail(s))

\* The first position at which sep occurs in s, 0 when it does not.
indexOf(s, sep) ==
  IF \E k \in 1..(Len(s) - Len(sep) + 1) : SubSeq(s, k, k + Len(sep) - 1) = sep
    THEN CHOOSE k \in 1..(Len(s) - Len(sep) + 1) :
           /\ SubSeq(s, k, k + Len(sep) - 1) = sep
           /\ \A m \in 1..(k - 1) : SubSeq(s, m, m + Len(sep) - 1) # sep
    ELSE 0

\* String.prototype.split(sep) for a non-empty separator: the pieces between
\* the occurrences of sep, left to right; <<s>> when sep does not occur.
RECURSIVE split(_, _)
split(s, sep) ==
  IF indexOf(s, sep) = 0
    THEN <<s>>
    ELSE <<SubSeq(s, 1, indexOf(s, sep) - 1)>>
           \o split(SubSeq(s, indexOf(s, sep) + Len(sep), Len(s)), sep)

\* Array.prototype.shift / pop on the fresh array split returns.
shift(a) == a[1]
pop(a) == a[Len(a)]

\* String.prototype.endsWith.
endsWith(s, suffix) ==
  Len(s) >= Len(suffix) /\ SubSeq(s, Len(s) - Len(suffix) + 1, Len(s)) = suffix

WhiteSpace == {" ", "\t", "\n"}

\* String.prototype.trim.
RECURSIVE trim(_)
trim(s) ==
  IF Len(s) = 0 THEN ""
  ELSE IF charAt(s, 1) \in WhiteSpace THEN trim(Tail(s))
  ELSE IF charAt(s, Len(s)) \in WhiteSpace THEN trim(SubSeq(s, 1, Len(s) - 1))
  ELSE s

Digits == "0123456789"

digitOf(c) == (CHOOSE j \in 1..Len(Digits) : charAt(Digits, j) = c) - 1

RECURSIVE decimal(_)
decimal(s) ==
  IF Len(s) = 0 THEN 0
  ELSE 10 * decimal(SubSeq(s, 1, Len(s) - 1)) + digitOf(charAt(s, Len(s)))

\* Number(s) on the texts a cell can hold here: the empty (or blank) string is
\* 0, a run of digits is its decimal value, anything else is NaN.
NaN == [isNaN |-> TRUE, value |-> 0]

Number_EmptyIsNaN(s) ==
  IF Len(trim(s)) > 0 /\ \A k \in 1..Len(trim(s)) :
       \E j \in 1..Len(Digits) : charAt(Digits, j) = charAt(trim(s), k)
    THEN [isNaN |-> FALSE, value |-> decimal(trim(s))]
    ELSE NaN

Number(s) ==
  IF \A k \in 1..Len(trim(s)) :
       \E j \in 1..Len(Digits) : charAt(Digits, j) = charAt(trim(s), k)
    THEN [isNaN |-> FALSE, value |-> decimal(trim(s))]
    ELSE NaN

\* ------------------------------------------- one artifact's download (dl)
\* The switch on the extension in downloadWithRetry and downloadAndUpload.
contentTypeOf(extension) ==
  CASE extension = "pdf" -> "application/pdf"
    [] extension = "pptx" ->
         "application/vnd.openxmlformats-officedocument.presentationml.presentation"
    [] extension = "ppt" -> "application/vnd.ms-powerpoint"
    [] extension = "docx" ->
         "application/vnd.openxmlformats-officedocument.wordprocessingml.document"
    [] extension = "doc" -> "application/msword"
    [] extension = "xlsx" ->
         "application/vnd.openxmlformats-officedocument.spreadsheetml.sheet"
    [] extension = "xls" -> "application/vnd.ms-excel"
    [] extension = "csv" -> "text/csv"
    [] extension = "json" -> "application/json"
    [] extension = "txt" -> "text/plain"
    [] extension = "xml" -> "application/xml"
    [] extension \in {"html", "htm"} -> "text/html"
    [] OTHER -> "application/octet-stream"

\* const extension = fileName.toLowerCase().split('.').pop(), then the switch.
inferContentType(fileName) == contentTypeOf(pop(split(toLowerCase(fileName), ".")))

\* The content type the earlier downloadWithRetry of hrCockpitHandler.js
\* derives: fileName.endsWith("pdf") ? pdf : pptx.
pdfOrPptx(fileName) ==
  IF endsWith(fileName, "pdf")
    THEN "application/pdf"
    ELSE "application/vnd.openxmlformats-officedocument.presentationml.presentation"

\* downloadCSVWithRetry: const contentType = 'text/csv'.
csvContentType(fileName) == "text/csv"

\* `https://api.apify.com/v2/key-value-stores/${storeId}/records/${key}`.
locator(key) == [store |-> "ACTOR_DEFAULT_KEY_VALUE_STORE_ID", record |-> key]

\* if (name === 'JSON-Report') in downloadAndUpload.
isJsonReport_IgnoreCase(name) == toLowerCase(name) = "json-report"

isJsonReport(name) == name = "JSON-Report"

\* The artifact handleHRCockpit appends for a report link.
hrArtifact_ByType(fileType, ret) == [name |-> fileType, url |-> locator(fileType)]

hrArtifact(fileType, ret) == [name |-> fileType, url |-> locator(ret.fileName)]

\* The artifact the earlier copy of handleHRCockpit appends for a report link
\* (fileSize, the length of the buffer read, is left out).
hrFileArtifact(ret) ==
  [fileUrl |-> locator(ret.fileName), fileName |-> ret.fileName,
   contentType |-> ret.contentType]

\* The artifact handleHRCockpit appends for the CSV export.
csvArtifact(ret) == [name |-> "Evaluate-daten", url |-> locator(ret.fileName)]

\* What downloadAndUpload returns; handleProfilingValues appends it as it is.
pvArtifact(name) == [name |-> name, url |-> locator(name)]

\* Which code downloads the artifact: downloadWithRetry as it stands at the
\* end of hrCockpitHandler.js, the earlier downloadWithRetry of the same file
\* (its caller does the store write), downloadCSVWithRetry, downloadAndUpload.
DlKinds == {"hrReport", "hrReportFirst", "hrCsv", "pvReport"}

\* download.suggestedFilename() as the site may serve it.
FileNames == {"report.pdf", "report.PDF", "report.PPTX", "slides.ppt",
              "letter.docx", "old.doc", "sheet.xlsx", "evaluate.xls",
              "evaluate.csv", "Evaluate.CSV", "data.json", "notes.txt",
              "feed.xml", "page.html", "page.htm", "file.unknownext",
              "archive.tar.gz", "pdf", "report.final.Pdf"}

\* button.textContent() of a report button.
Labels == {"JSON-Report", "json-report", "JSON-Report ", "PDF-Report"}

\* The name the caller passes to the wrapper / the button's label.
DlLabels(kind) ==
  IF kind = "pvReport" THEN Labels
  ELSE IF kind = "hrCsv" THEN {"Evaluate-daten"}
  ELSE {"Standard-Report", "Report-4"}

NewDownload(kind, label, fileName) ==
  [pc |-> "call", kind |-> kind, label |-> label, fileName |-> fileName,
   attempt |-> 0, writes |-> <<>>, awaited |-> {}, ran |-> {},
   ret |-> [fileName |-> "", contentType |-> ""], reports |-> <<>>]

\* KeyValueStore.setValue(key, value, {contentType}) that resolved; the value
\* is the buffer read from the downloaded file or the text of a response.
setValue(d, key, value, contentType) ==
  [d EXCEPT !.writes = Append(@, [key |-> key, value |-> value,
                                  contentType |-> contentType])]

\* One pass of the loop of downloadWithRetry (either copy).  The pass throws
\* at the page, at the download or at setValue, which is its last call that
\* can fail: a pass that throws has stored nothing.
DlReportAttempt ==
  /\ dl.pc = "call" /\ dl.kind \in {"hrReport", "hrReportFirst"}
  /\ \E ok \in BOOLEAN :
       LET a == dl.attempt + 1
           v == downloadWithRetry(a, ok)
           d == [dl EXCEPT !.attempt = a,
                           !.awaited = @ \cup {"download"},
                           !.ran = @ \cup {"click"}]
       IN dl' = CASE v = "return" /\ dl.kind = "hrReport" ->
                       [setValue(d, dl.fileName, "file", inferContentType(dl.fileName))
                          EXCEPT !.pc = "returned",
                                 !.ret = [fileName |-> dl.fileName,
                                          contentType |-> inferContentType(dl.fileName)]]
                  [] v = "return" /\ dl.kind = "hrReportFirst" ->
                       [d EXCEPT !.pc = "returned",
                                 !.ret = [fileName |-> dl.fileName,
                                          contentType |-> pdfOrPptx(dl.fileName)]]
                  [] v = "retry" -> d
                  [] OTHER -> [d EXCEPT !.pc = "skipped"]
  /\ UNCHANGED <<build, code, codeType, runId, env, endpoint, mpc, exitCode,
                 lastError, retryCount, h, prog, dataset, soll, reg, pg>>

\* One pass of the loop of downloadCSVWithRetry.
DlCsvAttempt ==
  /\ dl.pc = "call" /\ dl.kind = "hrCsv"
  /\ \E ok \in BOOLEAN :
       LET a == dl.attempt + 1
           v == downloadCSVWithRetry(a, ok)
           d == [dl EXCEPT !.attempt = a,
                           !.awaited = @ \cup {"popup", "download"},
                           !.ran = @ \cup {"click"}]
       IN dl' = CASE v = "return" ->
                       [setValue(d, dl.fileName, "file", csvContentType(dl.fileName))
                          EXCEPT !.pc = "returned",
                                 !.ret = [fileName |-> dl.fileName,
                                          contentType |-> csvContentType(dl.fileName)]]
                  [] v = "retry" -> d
                  [] OTHER -> [d EXCEPT !.pc = "skipped"]
  /\ UNCHANGED <<build, code, codeType, runId, env, endpoint, mpc, exitCode,
                 lastError, retryCount, h, prog, dataset, soll, reg, pg>>

\* One call of downloadAndUpload under pRetry.  In either branch setValue is
\* the last call that can fail (the 2 s pause after it cannot).
DlAndUpload ==
  /\ dl.pc = "call" /\ dl.kind = "pvReport"
  /\ \E ok \in BOOLEAN :
       LET a == dl.attempt + 1
           v == pRetry(a, ok)
           d == IF isJsonReport(dl.label)
                  THEN [dl EXCEPT !.attempt = a,
                                  !.awaited = @ \cup {"response"},
                                  !.ran = @ \cup {"click"}]
                  ELSE [dl EXCEPT !.attempt = a,
                                  !.awaited = @ \cup {"download"},
                                  !.ran = @ \cup {"onclick"}]
       IN dl' = CASE v = "return" /\ isJsonReport(dl.label) ->
                       [setValue(d, dl.label, "responseText", "application/json")
                          EXCEPT !.pc = "returned"]
                  [] v = "return" /\ ~isJsonReport(dl.label) ->
                       [setValue(d, dl.label, "file", inferContentType(dl.fileName))
                          EXCEPT !.pc = "returned"]
                  [] v = "retry" -> d
                  [] OTHER -> [d EXCEPT !.pc = "skipped"]
  /\ UNCHANGED <<build, code, codeType, runId, env, endpoint, mpc, exitCode,
                 lastError, retryCount, h, prog, dataset, soll, reg, pg>>

\* The caller's statements after the awaited call: result.reports.push(...),
\* preceded in the earlier copy of handleHRCockpit by readFile and setValue,
\* whose failure the loop's catch turns into a skipped artifact.
DlPush ==
  /\ dl.pc = "returned"
  /\ \E ok \in BOOLEAN :
       dl' = CASE dl.kind = "hrReport" ->
                    [dl EXCEPT !.pc = "pushed",
                               !.reports = Append(@, hrArtifact(dl.label, dl.ret))]
               [] dl.kind = "hrCsv" ->
                    [dl EXCEPT !.pc = "pushed",
                               !.reports = Append(@, csvArtifact(dl.ret))]
               [] dl.kind = "pvReport" ->
                    [dl EXCEPT !.pc = "pushed",
                               !.reports = Append(@, pvArtifact(dl.label))]
               [] OTHER ->
                    IF ok
                      THEN [setValue(dl, dl.ret.fileName, "file", dl.ret.contentType)
                              EXCEPT !.pc = "pushed",
                                     !.reports = Append(@, hrFileArtifact(dl.ret))]
                      ELSE [dl EXCEPT !.pc = "skipped"]
  /\ UNCHANGED <<build, code, codeType, runId, env, endpoint, mpc, exitCode,
                 lastError, retryCount, h, prog, dataset, soll, reg, pg>>

\* --------------------------------------- one Soll profile page (soll)
\* Text of the cell after "Erstellt": a timestamp, the word "von", a name.
Timestamps == {"2024-01-01", " 2024-01-01 ", "01.02.2024 10:15 "}
Creators == {"Jane Doe", " Jane Doe ", " Yvonne Doe", " Hans von Braun ", ""}

\* created / created_by of the metadata object.
created(cell) == trim(shift(split(cell, "von")))
createdBy(cell) == trim(pop(split(cell, "von")))

\* Largest number of row pairs in #pat_table.
MaxPairs == 2

\* The rows #pat_table can hold below its header, as the texts of their cells.
HeaderRow == <<"Definition", "", "Min", "Max", "Mitte">>
DataRows == {<<" Skill A ", "K", "1", "5", "3">>,
             <<"_", "W", "2", " 4 ", "3">>,
             <<"Skill B", "K", "", "n/a">>}

\* $(tr).find("td").eq(k).text() for 0-based k: "" when the row is missing
\* (an empty selection) or has no such cell.
cellText(trs, r, k) ==
  IF r <= Len(trs) /\ k + 1 <= Len(trs[r]) THEN trs[r][k + 1] ELSE ""

\* The body of the loop `for (i = 0; i < trs.length; i += 2)` for the 1-based
\* row r = i + 1: können from the row, wollen from $(trs[i]).next("tr").
rowRecord(trs, r) ==
  [definition |-> trim(cellText(trs, r, 0)),
   koennen |-> [min |-> Number(cellText(trs, r, 2)),
                max |-> Number(cellText(trs, r, 3)),
                mitte |-> Number(cellText(trs, r, 4))],
   wollen |-> [min |-> Number(cellText(trs, r + 1, 2)),
               max |-> Number(cellText(trs, r + 1, 3)),
               mitte |-> Number(cellText(trs, r + 1, 4))]]

\* The loop from row r on.
RECURSIVE rowsFrom(_, _)
rowsFrom(trs, r) ==
  IF r > Len(trs) THEN <<>> ELSE <<rowRecord(trs, r)>> \o rowsFrom(trs, r + 2)

\* const trs = $("#pat_table tr").slice(1), then the loop.
extractRows_KeepHeader(table) == rowsFrom(table, 1)

extractRows(table) == rowsFrom(Tail(table), 1)

Tables == UNION {[1..n -> DataRows] : n \in 0..(2 * MaxPairs)}

NewPage(t, n, rows) ==
  [pc |-> "page", timestamp |-> t, creator |-> n, cell |-> t \o "von" \o n,
   table |-> <<HeaderRow>> \o rows,
   metadata |-> [created |-> "", created_by |-> ""], data |-> <<>>]

\* handleProfilingValuesSoll reads the metadata cells and the table of the
\* page it has loaded into cheerio.
SollExtractPage ==
  /\ soll.pc = "page"
  /\ soll' = [soll EXCEPT !.pc = "extracted",
                          !.metadata = [created |-> created(soll.cell),
                                        created_by |-> createdBy(soll.cell)],
                          !.data = extractRows(soll.table)]
  /\ UNCHANGED <<build, code, codeType, runId, env, endpoint, mpc, exitCode,
                 lastError, retryCount, h, prog, dataset, dl, reg, pg>>

\* ------------------------------------------- one registry call (reg)
RegFunctions == {"getConfig", "isValidCodeType", "getValidCodeTypes"}

\* Arguments a caller may pass for codeType.
LookupArgs == DOMAIN CONFIG \cup {"", "BOGUS", "hr_cockpit", "HR_COCKPIT ",
                                  "constructor", "PROFILING"}

\* One call of an exported function of config.js.
Lookup ==
  /\ reg.pc = "call"
  /\ reg' = CASE reg.fn = "getConfig" ->
                   IF "error" \in DOMAIN getConfig(reg.arg)
                     THEN [reg EXCEPT !.pc = "threw"]
                     ELSE [reg EXCEPT !.pc = "returned",
                                      !.entry = {getConfig(reg.arg)}]
              [] reg.fn = "isValidCodeType" ->
                   [reg EXCEPT !.pc = "returned",
                               !.valid = isValidCodeType(reg.arg)]
              [] OTHER ->
                   [reg EXCEPT !.pc = "returned", !.keys = getValidCodeTypes]
  /\ UNCHANGED <<build, code, codeType, runId, env, endpoint, mpc, exitCode,
                 lastError, retryCount, h, prog, dataset, dl, soll, pg>>

\* ------------------------------- downloads that share one page (pg)
\* Number of report links (HR Cockpit) or report buttons (Profiling Values)
\* on the page.
PageArtifacts == 2

\* "hr": the loop of handleHRCockpit over downloadWithRetry; "pv": the loop of
\* handleProfilingValues over pRetry(downloadAndUpload), download branch.
PgKinds == {"hr", "pv"}

\* What names an artifact on the page: the suggested file name its download
\* carries (hr), the label of its button (pv).
ServedNames(kind) ==
  IF kind = "hr" THEN {"report.pdf", "slides.pptx"}
  ELSE {"PDF-Report", "CSV-Report"}

\* A download event is known by the artifact whose trigger caused it and by
\* whether that trigger belongs to the attempt under way (own) or to an
\* attempt that is over.  Events alike in both are not told apart.
NoEvent == [art |-> 0, own |-> FALSE]

NewPageRun(kind, names) ==
  [pc |-> "register", kind |-> kind, names |-> names, art |-> 1, attempt |-> 1,
   got |-> NoEvent, behind |-> FALSE, late |-> {}, stored |-> <<>>,
   unhandled |-> FALSE]

\* page.waitForEvent("download") resolves with the first download event the
\* page emits after the call, whatever caused it: event e reaches the wait of
\* the attempt under way, if it has one open, and every wait left behind.
deliver(p, e) ==
  [p EXCEPT !.got = IF p.pc \in {"pause", "await"} /\ @ = NoEvent THEN e ELSE @,
            !.behind = FALSE]

\* The attempt under way is over: downloads still on their way are those of
\* an earlier attempt from now on.
endAttempt(p) ==
  [p EXCEPT !.got = NoEvent,
            !.late = {[art |-> e.art, own |-> FALSE] : e \in @}]

\* After the awaited call returned or threw for good: the next artifact.
nextArtifact(p) ==
  IF p.art < PageArtifacts
    THEN [endAttempt(p) EXCEPT !.art = @ + 1, !.attempt = 1, !.pc = "register"]
    ELSE [endAttempt(p) EXCEPT !.pc = "done"]

\* The attempt threw: the catch of downloadWithRetry, or pRetry, decides.
failAttempt(p) ==
  LET v == IF p.kind = "hr" THEN downloadWithRetry(p.attempt, FALSE)
           ELSE pRetry(p.attempt, FALSE)
  IN IF v = "retry"
       THEN [endAttempt(p) EXCEPT !.attempt = @ + 1, !.pc = "register"]
       ELSE nextArtifact(p)

\* The key of the store write: the captured download's suggested file name
\* (hr), the button's label (pv).
storeKey(p) == IF p.kind = "hr" THEN p.names[p.got.art] ELSE p.names[p.art]

\* Whose trigger caused the download the attempt under way has captured.
provenance(p) ==
  IF p.got.own THEN "own trigger"
  ELSE IF p.got.art = p.art THEN "earlier attempt"
  ELSE "earlier artifact"

\* const downloadPromise = page.waitForEvent("download", {timeout}).
PgRegister ==
  /\ pg.pc = "register"
  /\ pg' = [pg EXCEPT !.pc = "pause", !.got = NoEvent]
  /\ UNCHANGED <<build, code, codeType, runId, env, endpoint, mpc, exitCode,
                 lastError, retryCount, h, prog, dataset, dl, soll, reg>>

\* The statements between the registration and the await of the wait: the
\* 1 s pause and locator.click() (hr), getAttribute("onclick") and
\* page.evaluate (pv).  They throw, leaving the catch with the wait neither
\* awaited nor cancelled, or they trigger a download that arrives at once,
\* arrives later or never arrives.
PgTrigger ==
  /\ pg.pc = "pause"
  /\ \E outcome \in {"throws", "arrives", "late", "lost"} :
       LET e == [art |-> pg.art, own |-> TRUE]
       IN pg' = CASE outcome = "throws" ->
                       failAttempt([pg EXCEPT !.behind = @ \/ pg.got = NoEvent])
                  [] outcome = "arrives" ->
                       [deliver(pg, e) EXCEPT !.pc = "await"]
                  [] outcome = "late" ->
                       [pg EXCEPT !.late = @ \cup {e}, !.pc = "await"]
                  [] OTHER ->
                       [pg EXCEPT !.pc = "await"]
  /\ UNCHANGED <<build, code, codeType, runId, env, endpoint, mpc, exitCode,
                 lastError, retryCount, h, prog, dataset, dl, soll, reg>>

\* const download = await downloadPromise, then saveAs, readFile and setValue:
\* the wait resolved with an event and the file is stored (or a later call
\* throws), or the wait times out inside the try block.
PgAwait ==
  /\ pg.pc = "await"
  /\ IF pg.got = NoEvent
       THEN pg' = failAttempt(pg)
       ELSE \E ok \in BOOLEAN :
              pg' = IF ok
                      THEN nextArtifact(
                             [pg EXCEPT !.stored =
                                Append(@, [art |-> pg.art, from |-> provenance(pg),
                                           key |-> storeKey(pg)])])
                      ELSE failAttempt(pg)
  /\ UNCHANGED <<build, code, codeType, runId, env, endpoint, mpc, exitCode,
                 lastError, retryCount, h, prog, dataset, dl, soll, reg>>

\* A download triggered earlier reaches the page.
PgLateArrives ==
  /\ pg.pc \in {"register", "pause", "await"}
  /\ \E e \in pg.late : pg' = deliver([pg EXCEPT !.late = @ \ {e}], e)
  /\ UNCHANGED <<build, code, codeType, runId, env, endpoint, mpc, exitCode,
                 lastError, retryCount, h, prog, dataset, dl, soll, reg>>

\* The waits left behind by attempts that threw reach their timeout (or the
\* page is closed): their promises reject with nobody awaiting them.
PgWaitTimesOut ==
  /\ pg.pc \in {"register", "pause", "await", "done"}
  /\ pg.behind
  /\ pg' = [pg EXCEPT !.behind = FALSE, !.unhandled = TRUE]
  /\ UNCHANGED <<build, code, codeType, runId, env, endpoint, mpc, exitCode,
                 lastError, retryCount, h, prog, dataset, dl, soll, reg>>

\* ------------------------------------------------------------ SpecParts
\* The run itself stands still here; exactly one part is exercised.
InitParts ==
  /\ build = "main" /\ code = "ABC123" /\ codeType = "HR_COCKPIT"
  /\ runId = "" /\ env = AllEnv /\ endpoint = "2xx"
  /\ mpc = "parked" /\ exitCode = -1 /\ lastError = "" /\ retryCount = 0
  /\ h = Idle
  /\ prog = [last |-> NoUpdate, completed |-> 0, failed |-> 0, raised |-> FALSE]
  /\ dataset = <<>>
  /\ \/ /\ \E kind \in DlKinds : \E label \in DlLabels(kind) :
             \E fileName \in FileNames : dl = NewDownload(kind, label, fileName)
        /\ soll = Parked /\ reg = Parked /\ pg = Parked
     \/ /\ \E t \in Timestamps : \E n \in Creators : \E rows \in Tables :
             soll = NewPage(t, n, rows)
        /\ dl = Parked /\ reg = Parked /\ pg = Parked
     \/ /\ \E kind \in PgKinds : \E names \in [1..PageArtifacts -> ServedNames(kind)] :
             pg = NewPageRun(kind, names)
        /\ dl = Parked /\ soll = Parked /\ reg = Parked
     \/ /\ \E fn \in RegFunctions : \E arg \in LookupArgs :
             reg = [pc |-> "call", fn |-> fn, arg |-> arg, entry |-> {},
                    valid |-> FALSE, keys |-> {}]
        /\ dl = Parked /\ soll = Parked /\ pg = Parked

NextParts ==
  \/ DlReportAttempt \/ DlCsvAttempt \/ DlAndUpload \/ DlPush
  \/ SollExtractPage
  \/ Lookup
  \/ PgRegister \/ PgTrigger \/ PgAwait \/ PgLateArrives \/ PgWaitTimesOut

SpecParts == InitParts /\ [][NextParts]_vars

\* ================================================================ claims
\* Progress reporting is switched on: a run id and both endpoint variables.
Reporting == runId # "" /\ {"FRONT_URL", "ACTOR_SECRET"} \subseteq env

\* The process has ended.
Ended == mpc \in {"exited", "crashed"}

\* The workflow succeeded / failed hard (threw on every crawler attempt).
WorkflowSucceeded == h.pc = "done"
WorkflowFailedHard == h.pc = "failed"

ResultRecords == {k \in 1..Len(dataset) : dataset[k].kind = "result"}
ErrorRecords == {k \in 1..Len(dataset) : dataset[k].kind = "error"}

\* C1 (as claimed): a run of src/main.js that reports progress has sent, when
\* it ends, exactly one terminal update (COMPLETED or FAILED).
C1_ExactlyOneTerminalReport ==
  (build = "main" /\ Ended /\ Reporting) => prog.completed + prog.failed = 1

\* C2 (as claimed): a run whose workflow succeeded ends with exit code 0 and a
\* COMPLETED update; a run whose workflow failed hard ends with an error
\* record, a FAILED update, a non-zero exit code and no COMPLETED update.
C2_ExitContract ==
  Ended =>
    /\ WorkflowSucceeded =>
         /\ exitCode = 0
         /\ Reporting => prog.last.status = "COMPLETED"
    /\ WorkflowFailedHard =>
         /\ ErrorRecords # {}
         /\ Reporting => prog.failed >= 1
         /\ exitCode # 0
         /\ prog.completed = 0

\* C3 (as claimed): a run that passed input validation has appended, when it
\* ends, exactly one record to the result store.
C3_ExactlyOneRecord ==
  (Ended /\ ValidationError = "") => Len(dataset) = 1

\* C3 holds of src/main.js alone: there a validated run ends with one record,
\* a result record pushed at the save step or else one error record.
C3_ExactlyOneRecord_MainJs ==
  (build = "main" /\ Ended /\ ValidationError = "") =>
    /\ Len(dataset) = 1
    /\ WorkflowSucceeded <=> dataset[1].kind = "result"

\* C4 (as claimed): a run that entered main's catch block ends by a regular
\* exit with a non-zero code, an error record appended and, when reporting is
\* on, a FAILED update sent.
C4_CatchCompletes ==
  (Ended /\ exitCode = 1) =>
    /\ mpc = "exited"
    /\ ErrorRecords # {}
    /\ Reporting => prog.failed = 1

\* The handler is past target discovery: the code was located and the links
\* or buttons counted (totalSteps has been recomputed).
Located == mpc = "crawl" /\ h.assigns >= 1

\* The errors raised at the head of a Profiling Values loop iteration.
ButtonErrors == {"ButtonCountChanged", "ButtonUnreadable"}

\* C5 (as claimed): in HR Cockpit and Profiling Values, once the code has
\* been located nothing thrown before the persist call aborts the handler
\* invocation.
C5_ExtractingNeverAborts ==
  (Located /\ h.pc = "threw") => lastError = "PersistFailed"

\* C5 (amended): in HR Cockpit and Profiling Values, once the code has been
\* located and the targets counted, an artifact whose download
\* fails after retry exhaustion is skipped and the loop goes on; the handler
\* reaches the save step with every target attempted (each one appended or
\* skipped).  The only throws that abort an invocation after discovery are a
\* failing persist call and, in Profiling Values, the button re-query at the
\* head of a loop iteration.
C5_OnlyButtonRequeryAborts ==
  /\ (Located /\ h.pc = "threw") =>
       \/ lastError = "PersistFailed"
       \/ /\ Route(codeType) = "handleProfilingValues"
          /\ lastError \in ButtonErrors
  /\ (Located /\ h.pc = "save") =>
       /\ h.i = h.n
       /\ Len(h.reports) + h.skipped =
            h.n + (IF getConfig(codeType).includeCSV THEN 1 ELSE 0)

\* C5 witness: a handler at the save step after at least one artifact was
\* skipped and at least one appended.
C5_Witness ==
  /\ mpc = "crawl" /\ h.pc = "save"
  /\ h.skipped >= 1 /\ Len(h.reports) >= 1

\* C6 (as claimed): in a running handler current never exceeds the latest
\* total, in the locals, in the step log and in the progress updates.
C6_CurrentWithinTotal ==
  mpc = "crawl" =>
    /\ h.currentStep <= h.totalSteps
    /\ h.log.current <= h.log.total
    /\ (prog.last.status = "RUNNING" => prog.last.done <= prog.last.total)

\* C7: totalSteps is reassigned at most once per handler invocation; before
\* the reassignment it holds the initial placeholder and no download step has
\* been counted or started; after it, it keeps the value computed from the
\* number of targets discovered.
C7_TotalRecomputedOnce ==
  mpc = "crawl" =>
    /\ h.assigns <= 1
    /\ h.assigns = 0 =>
         /\ h.totalSteps = InitialTotal(codeType)
         /\ h.attempt = 0 /\ h.i = 0 /\ h.reports = <<>>
    /\ h.assigns = 1 =>
         /\ Route(codeType) = "handleHRCockpit" => h.totalSteps = 4 + h.n + 1 + 1
         /\ Route(codeType) = "handleProfilingValues" => h.totalSteps = 4 + h.n
    /\ (Route(codeType) # "handleProfilingValuesSoll"
          /\ h.pc \in {"dl", "dlTry", "csv", "csvTry", "save", "final", "done"})
         => h.assigns = 1

\* C7 witness: an HR Cockpit invocation at its save step, all links and the
\* CSV export behind it, with one reassignment of totalSteps.
C7_Witness ==
  /\ At("handleHRCockpit", "save")
  /\ h.n >= 2 /\ h.assigns = 1

\* C8: an HR Cockpit result record of a run that discovered n <= 3 links and
\* skipped nothing holds n + 1 artifacts, the n reports in link order named by
\* the first n file types, then 'Evaluate-daten'.
C8_ArtifactsOfFullRun ==
  \A k \in ResultRecords :
    (Route(codeType) = "handleHRCockpit" /\ h.n <= 3 /\ h.skipped = 0) =>
      LET r == dataset[k].reports
      IN  /\ Len(r) = h.n + 1
          /\ \A j \in 1..h.n :
               r[j] = [name |-> <<"Standard-Report", "Assessment-Report",
                                  "PPT-Report">>[j],
                       link |-> j]
          /\ r[h.n + 1].name = "Evaluate-daten"

\* C8 witness: a pushed HR Cockpit record of a run with 3 links, none skipped,
\* holding 4 artifacts.
C8_Witness ==
  /\ Route(codeType) = "handleHRCockpit" /\ h.n = 3 /\ h.skipped = 0
  /\ \E k \in ResultRecords : Len(dataset[k].reports) = 4

\* C9: when a run whose workflow succeeded has ended and progress is
\* reported, the last update sent is COMPLETED with done = total.
C9_LastUpdateCompleted ==
  (Ended /\ WorkflowSucceeded /\ Reporting) =>
    /\ prog.last.status = "COMPLETED"
    /\ prog.last.done = prog.last.total

\* C9 witness: a successful, reporting run that has ended.
C9_Witness ==
  /\ Ended /\ WorkflowSucceeded /\ Reporting
  /\ prog.last.status = "COMPLETED"

\* C10: in HR Cockpit a retry wrapper call makes at most 3 attempts and has
\* logged one failure per failed attempt; a call that returned on attempt k
\* logged k - 1 failures (2 when it returned the attempt-3 result); a call
\* that threw did so on attempt 3 with 3 failures logged.
C10_RetryWrapper ==
  (mpc = "crawl" /\ Route(codeType) = "handleHRCockpit") =>
    /\ h.attempt <= maxRetries
    /\ h.pc \in {"dlTry", "csvTry"} =>
         (h.attempt >= 1 /\ h.failLogs = h.attempt - 1)
    /\ h.ret > 0 => (h.ret = h.attempt /\ h.failLogs = h.ret - 1)
    /\ (h.attempt > 0 /\ h.ret = 0 /\ h.pc \notin {"dlTry", "csvTry"}) =>
         (h.attempt = maxRetries /\ h.failLogs = maxRetries)

\* C10 witness: a wrapper call that failed twice and returned on attempt 3.
C10_Witness ==
  /\ mpc = "crawl" /\ Route(codeType) = "handleHRCockpit"
  /\ h.ret = 3 /\ h.failLogs = 2

\* C10 witness, exhaustion: a wrapper call that threw after its third failure.
C10_WitnessExhausted ==
  /\ mpc = "crawl" /\ Route(codeType) = "handleHRCockpit"
  /\ h.pc = "save" /\ h.ret = 0 /\ h.attempt = 3 /\ h.failLogs = 3

\* C11 (as claimed): a Profiling Values report download is attempted at most
\* 5 times in total, each failed attempt logged once.
C11_AtMostFiveAttempts ==
  (mpc = "crawl" /\ Route(codeType) = "handleProfilingValues") =>
    /\ h.attempt <= 5
    /\ h.failLogs <= h.attempt

\* C12 (as claimed): the wait before a retry is the same fixed delay for every
\* retry of every wrapper: the wait before attempt k + 1 equals the wait
\* before attempt 2.
C12_FixedRetryDelay ==
  (mpc = "crawl" /\ h.pc \in {"dlTry", "csvTry"} /\ h.attempt >= 2) =>
    h.delay = (IF Route(codeType) = "handleHRCockpit"
                 THEN retryDelay(1) ELSE pRetryDelay(1))

\* One of the two credential variables the configuration names is unset.
CredentialUnset ==
  \/ CONFIG[codeType].envCredentials.user \notin env
  \/ CONFIG[codeType].envCredentials.password \notin env

\* C13: with one of the variant's two credential variables unset or empty, a
\* handler invocation never gets past its login step: it throws the
\* missing-credentials error without having filled, clicked or navigated
\* anything, attempted a download or stored an artifact.
C13_NoPageUseWithoutCredentials ==
  (mpc = "crawl" /\ CredentialUnset) =>
    /\ h.pc \in {"login", "threw"}
    /\ ~h.page
    /\ h.attempt = 0 /\ h.reports = <<>> /\ h.n = 0
    /\ h.pc = "threw" => (lastError = "MissingCredentials" /\ h.currentStep = 1)

\* C13 witness: a retried invocation (the third) that threw the
\* missing-credentials error, the page untouched.
C13_Witness ==
  /\ mpc = "crawl" /\ CredentialUnset
  /\ h.pc = "threw" /\ lastError = "MissingCredentials" /\ retryCount = 2
  /\ ~h.page

\* C14 (as claimed): every error record in the result store holds the code
\* and codeType of the invocation, an error message and the run id.
C14_ErrorRecordIdentifiesRun ==
  \A k \in ErrorRecords :
    /\ dataset[k].code = code
    /\ dataset[k].codeType = codeType
    /\ dataset[k].error # ""
    /\ dataset[k].runId = runId

\* C15 (as claimed): an invocation that threw code-not-found is not followed
\* by another invocation of the handler in the same run.
C15_CodeNotFoundNotRetried ==
  [][~(h.pc = "threw" /\ lastError = "CodeNotFound" /\ h'.pc = "login")]_vars

\* The input fails validation on code or codeType.
InvalidInput ==
  \/ code = ""
  \/ codeType = ""
  \/ codeType \notin {"HR_COCKPIT", "HR_COCKPIT_SOLL",
                       "PROFILING_VALUES", "PROFILING_VALUES_SOLL"}

\* C16: a run whose code is missing or whose codeType is missing or not one
\* of the four identifiers fails in main before anything else happens: no
\* STARTING update is posted, no crawler is set up, no handler invocation
\* starts, and the run ends with a non-zero exit code.
C16_ValidationBeforeWorkflow ==
  InvalidInput =>
    /\ mpc \in {"validate", "catch", "awaiting", "exited", "crashed"}
    /\ h = Idle /\ retryCount = 0
    /\ prog.last.status \in {"NONE", "FAILED"} /\ prog.completed = 0
    /\ ResultRecords = {}
    /\ mpc # "validate" => lastError \in {"MissingCode", "MissingCodeType",
                                           "InvalidCodeType"}
    /\ Ended => exitCode = 1

\* C16 witness: a run of src/main.js with a code and an unknown codeType that
\* has ended, its only update the FAILED one.
C16_Witness ==
  /\ code # "" /\ codeType = "BOGUS" /\ Reporting
  /\ mpc = "exited" /\ prog.failed = 1 /\ prog.last.status = "FAILED"

C19_UpdatesNeverBlock ==
  mpc # "awaiting"

\* C20 (as claimed): in a reporting run, when a handler increments its step
\* counter again, the update last posted carries the value the counter had
\* (done) and the total that step was logged with.
C20_EveryStepReported ==
  [][(/\ mpc = "crawl" /\ Reporting
      /\ h.currentStep > 0
      /\ h'.currentStep = h.currentStep + 1)
       => (/\ prog.last.done = h.currentStep
           /\ prog.last.total = h.log.total)]_vars

C23_NameByLinkPosition ==
  (mpc = "crawl" /\ Route(codeType) = "handleHRCockpit") =>
    \A j \in 1..Len(h.reports) :
      LET a == h.reports[j]
      IN  a.link >= 1 =>
            a.name = (IF a.link <= 3
                        THEN <<"Standard-Report", "Assessment-Report",
                               "PPT-Report">>[a.link]
                        ELSE ReportNames[a.link])

\* C23 witness: the fourth link appended as "Report-4" right after the third
\* as "PPT-Report", the first two links skipped.
C23_Witness ==
  /\ mpc = "crawl" /\ Route(codeType) = "handleHRCockpit"
  /\ h.skipped = 2 /\ Len(h.reports) = 2
  /\ h.reports[1] = [name |-> "PPT-Report", link |-> 3]
  /\ h.reports[2] = [name |-> "Report-4", link |-> 4]

\* C30 (as claimed): a run never posts both a FAILED and a COMPLETED update,
\* and once FAILED is posted it stays the last update.
C30_NothingAfterFailed ==
  prog.failed >= 1 =>
    /\ prog.completed = 0
    /\ prog.last.status = "FAILED"

\* ---- C22
\* C22: every artifact appended to a result was stored in the blob store by
\* one successful write made before the append, and the artifact's url is the
\* locator of the key that write used.
urlOf(a) == IF "url" \in DOMAIN a THEN a.url ELSE a.fileUrl

C22_StoredOnceBeforeAppend ==
  dl.pc # "parked" =>
    /\ (Len(dl.reports) = 1) <=> (dl.pc = "pushed")
    /\ Len(dl.reports) <= Len(dl.writes)
    /\ \A j \in 1..Len(dl.reports) :
         /\ Len(dl.writes) = 1
         /\ urlOf(dl.reports[j]) = locator(dl.writes[1].key)

\* An HR report appended after two failed passes of the wrapper.
C22_Witness ==
  /\ dl.pc = "pushed" /\ dl.kind = "hrReport" /\ dl.attempt = 3
  /\ dl.fileName = "report.PDF"
  /\ dl.reports = <<[name |-> "Standard-Report",
                     url |-> [store |-> "ACTOR_DEFAULT_KEY_VALUE_STORE_ID",
                              record |-> "report.PDF"]]>>

\* ---- C24
\* C24: a report button labelled exactly "JSON-Report" is clicked and the text
\* of the JSON response is stored, no download event being awaited; a button
\* with any other label has its onclick script run and the downloaded file
\* stored.
C24_JsonReportByResponse ==
  (dl.pc # "parked" /\ dl.kind = "pvReport" /\ dl.attempt >= 1) =>
    /\ IF dl.label = "JSON-Report"
         THEN dl.ran = {"click"} /\ dl.awaited = {"response"}
         ELSE dl.ran = {"onclick"} /\ dl.awaited = {"download"}
    /\ dl.pc \in {"returned", "pushed"} =>
         /\ Len(dl.writes) = 1
         /\ dl.writes[1].key = dl.label
         /\ dl.writes[1].value =
              (IF dl.label = "JSON-Report" THEN "responseText" ELSE "file")

\* The JSON report stored on the second call of downloadAndUpload.
C24_Witness ==
  /\ dl.pc = "pushed" /\ dl.kind = "pvReport" /\ dl.attempt = 2
  /\ dl.label = "JSON-Report"
  /\ dl.writes = <<[key |-> "JSON-Report", value |-> "responseText",
                    contentType |-> "application/json"]>>

\* ---- C25
\* C25: the content type stored with every downloaded file, whichever workflow
\* and wrapper downloaded it, is the extension table applied to the lower-cased
\* extension of the file's name (generic binary for an unknown extension).
C25_UniformContentType ==
  dl.pc # "parked" =>
    \A j \in 1..Len(dl.writes) :
      dl.writes[j].value = "file" =>
        dl.writes[j].contentType = inferContentType(dl.fileName)

\* ---- C26
\* C26: for a cell text T + "von" + N the metadata holds created = trim(T) and
\* created_by = trim(N), N being all the text after the delimiter.
C26_CreatedSplitOnVon ==
  soll.pc = "extracted" =>
    /\ soll.metadata.created = trim(soll.timestamp)
    /\ soll.metadata.created_by = trim(soll.creator)

\* ---- C27
\* C27: a table of a header and 2k data rows yields k records; record j has
\* the trimmed first cell of row 2j-1 as definition, the numbers of cells 3, 4
\* and 5 of row 2j-1 as koennen {min, max, mitte} and those of row 2j as wollen.
textOf(row, c) == IF c <= Len(row) THEN row[c] ELSE ""

C27_RowPairsToRecords ==
  (soll.pc = "extracted" /\ (Len(soll.table) - 1) % 2 = 0) =>
    /\ 2 * Len(soll.data) = Len(soll.table) - 1
    /\ \A j \in 1..Len(soll.data) :
         /\ soll.data[j].definition = trim(textOf(soll.table[2 * j], 1))
         /\ soll.data[j].koennen =
              [min |-> Number(textOf(soll.table[2 * j], 3)),
               max |-> Number(textOf(soll.table[2 * j], 4)),
               mitte |-> Number(textOf(soll.table[2 * j], 5))]
         /\ soll.data[j].wollen =
              [min |-> Number(textOf(soll.table[2 * j + 1], 3)),
               max |-> Number(textOf(soll.table[2 * j + 1], 4)),
               mitte |-> Number(textOf(soll.table[2 * j + 1], 5))]

\* The documented example: rows ["Skill A", _, "1", "5", "3"] and
\* ["_", _, "2", "4", "3"] give one record.
C27_Witness ==
  /\ soll.pc = "extracted"
  /\ soll.table = <<HeaderRow, <<" Skill A ", "K", "1", "5", "3">>,
                    <<"_", "W", "2", " 4 ", "3">> >>
  /\ soll.data =
       <<[definition |-> "Skill A",
          koennen |-> [min |-> [isNaN |-> FALSE, value |-> 1],
                       max |-> [isNaN |-> FALSE, value |-> 5],
                       mitte |-> [isNaN |-> FALSE, value |-> 3]],
          wollen |-> [min |-> [isNaN |-> FALSE, value |-> 2],
                      max |-> [isNaN |-> FALSE, value |-> 4],
                      mitte |-> [isNaN |-> FALSE, value |-> 3]]]>>

\* ---- C28
\* C28: getConfig returns an entry exactly for the four identifiers, which are
\* also the arguments isValidCodeType accepts and the list getValidCodeTypes
\* returns; for any other argument it throws.
FourIds == {"HR_COCKPIT", "HR_COCKPIT_SOLL", "PROFILING_VALUES",
            "PROFILING_VALUES_SOLL"}

C28_LookupOnFourIds ==
  reg.pc \in {"returned", "threw"} =>
    /\ reg.fn = "getConfig" =>
         /\ (reg.pc = "returned") <=> (reg.arg \in FourIds)
         /\ reg.pc = "returned" =>
              (reg.entry # {} /\ \A e \in reg.entry : "envCredentials" \in DOMAIN e)
         /\ reg.pc = "threw" => reg.entry = {}
    /\ reg.fn = "isValidCodeType" =>
         (reg.pc = "returned" /\ reg.valid = (reg.arg \in FourIds))
    /\ reg.fn = "getValidCodeTypes" =>
         (reg.pc = "returned" /\ reg.keys = FourIds)

\* An identifier in the wrong case is refused.
C28_Witness ==
  reg.pc = "threw" /\ reg.fn = "getConfig" /\ reg.arg = "hr_cockpit"

\* ---- C29
\* C29: the entry of each identifier names the credential variables of its
\* platform, has includeCSV true exactly for the two HR variants, and the HR
\* variants list Standard-Report, Assessment-Report, PPT-Report.
C29_RegistryEntries ==
  (reg.pc = "returned" /\ reg.fn = "getConfig") =>
    \A e \in reg.entry :
      /\ e.envCredentials =
           (IF reg.arg \in {"HR_COCKPIT", "HR_COCKPIT_SOLL"}
              THEN [user |-> "HR_COCKPIT_USER", password |-> "HR_COCKPIT_PASSWORD"]
              ELSE [user |-> "PROFILING_VALUES_USER",
                    password |-> "PROFILING_VALUES_PASSWORD"])
      /\ e.includeCSV = (reg.arg \in {"HR_COCKPIT", "HR_COCKPIT_SOLL"})
      /\ reg.arg \in {"HR_COCKPIT", "HR_COCKPIT_SOLL"} =>
           e.fileTypes = <<"Standard-Report", "Assessment-Report", "PPT-Report">>

C29_Witness ==
  /\ reg.pc = "returned" /\ reg.fn = "getConfig"
  /\ reg.arg = "PROFILING_VALUES_SOLL"
  /\ \E e \in reg.entry : ~e.includeCSV

\* ---- C31
\* C31: over one run the done values of successive progress updates (main's,
\* every handler invocation's, retried ones included) never decrease.
C31_DoneNeverDecreases ==
  [][(prog.last.done >= 0 /\ prog'.last.done >= 0)
       => prog'.last.done >= prog.last.done]_vars

\* ---- C32
\* C32: every attempt of the HR CSV export starts with the page on the
\* completed-tests listing, whatever point an earlier attempt failed at.
C32_CsvAttemptStartsOnListing ==
  At("handleHRCockpit", "csvTry") => h.listing

\* ---- C33
\* C33: the CSV export starts only once every discovered report link has been
\* attempted to completion, and every report-link download is attempted with
\* the page still on the listing.
C33_LinksBeforeCsv ==
  (mpc = "crawl" /\ Route(codeType) = "handleHRCockpit") =>
    /\ h.pc \in {"dl", "dlTry"} => h.listing
    /\ (h.pc \in {"csv", "csvTry", "save", "final", "done"} /\ ~h.listing) =>
         (h.i = h.n /\ Len(h.reports) + h.skipped >= h.n)
    /\ h.pc \in {"csv", "csvTry"} => h.i = h.n

\* The page has left the listing in a CSV attempt that failed, after three
\* links were attempted, one of them skipped.
C33_Witness ==
  /\ At("handleHRCockpit", "csvTry") /\ ~h.listing /\ h.attempt = 2
  /\ h.n = 3 /\ h.i = 3 /\ h.skipped = 1 /\ Len(h.reports) = 2

\* ---- C34
\* C34: the file stored for an artifact is the download its own trigger caused
\* in the same attempt, never one caused by an earlier attempt or artifact.
C34_OwnDownloadCaptured ==
  pg.pc # "parked" =>
    \A j \in 1..Len(pg.stored) :
      pg.stored[j].from = "own trigger"

\* ---- C35
\* C35: an attempt that throws before its wait is awaited leaves no wait
\* pending behind it, so no wait ever rejects with nobody awaiting it.
C35_NoWaitLeftBehind ==
  pg.pc # "parked" => (~pg.behind /\ ~pg.unhandled)

\* ---- C36
\* C36: the artifacts stored in one run have pairwise distinct blob-store
\* keys, so no write overwrites the blob of an earlier artifact.
C36_DistinctKeys ==
  pg.pc # "parked" =>
    \A i \in 1..Len(pg.stored) : \A j \in 1..Len(pg.stored) :
      i # j => pg.stored[i].key # pg.stored[j].key

\* ---- C37
\* C37: the step counter advances by one per step, skipped artifacts
\* included, so its value once the result is persisted depends only on the
\* number of targets found and on the CSV flag.
StepsOfFullRun ==
  IF Route(codeType) = "handleHRCockpit"
    THEN 5 + h.n + (IF codeType \in {"HR_COCKPIT", "HR_COCKPIT_SOLL"}
                      THEN 1 ELSE 0) + 1
  ELSE IF Route(codeType) = "handleProfilingValues" THEN 4 + h.n + 1
  ELSE 5

C37_StepCountIgnoresFailures ==
  /\ (mpc = "crawl" /\ h.pc \in {"final", "done"}) =>
       (h.currentStep = StepsOfFullRun /\ h.log.current = StepsOfFullRun)
  /\ (mpc = "crawl" /\ Route(codeType) # "handleProfilingValuesSoll"
        /\ h.pc \in {"dl", "csv", "save"} /\ h.assigns >= 1) =>
       h.currentStep = (IF Route(codeType) = "handleHRCockpit" THEN 5 ELSE 4)
                         + Len(h.reports) + h.skipped

\* An HR run persisted after two of its three links and the CSV export were
\* skipped.
C37_Witness ==
  /\ At("handleHRCockpit", "done") /\ h.n = 3 /\ h.skipped = 3
  /\ Len(h.reports) = 1 /\ h.currentStep = 10

\* ---- C38
\* C38: every code type isValidCodeType accepts is dispatched by the router
\* to one handler (the two HR types to handleHRCockpit, PROFILING_VALUES to
\* handleProfilingValues, PROFILING_VALUES_SOLL to handleProfilingValuesSoll),
\* so a run that passed validation never takes the router's default branch.
C38_RouterCoversRegistry ==
  mpc \in {"setup", "crawl"} =>
    /\ codeType \in FourIds
    /\ Route(codeType) =
         (CASE codeType \in {"HR_COCKPIT", "HR_COCKPIT_SOLL"} -> "handleHRCockpit"
            [] codeType = "PROFILING_VALUES" -> "handleProfilingValues"
            [] OTHER -> "handleProfilingValuesSoll")
    /\ \A ct \in getValidCodeTypes : Route(ct) # "unknown"

\* A PROFILING_VALUES_SOLL run carried through by the Soll handler.
C38_Witness ==
  /\ mpc = "crawl" /\ codeType = "PROFILING_VALUES_SOLL"
  /\ Route(codeType) = "handleProfilingValuesSoll" /\ h.pc = "done"

\* ---- C39
\* C39: with an odd number of data rows below the header the last row still
\* gives a record, ceil(rows / 2) in all, and that record's wollen values are
\* Number("") = 0: present and not NaN.
C39_UnpairedRowGivesZeros ==
  (soll.pc = "extracted" /\ (Len(soll.table) - 1) % 2 = 1) =>
    /\ 2 * Len(soll.data) = Len(soll.table)
    /\ soll.data[Len(soll.data)].definition =
         trim(textOf(soll.table[Len(soll.table)], 1))
    /\ soll.data[Len(soll.data)].koennen.min =
         Number(textOf(soll.table[Len(soll.table)], 3))
    /\ soll.data[Len(soll.data)].wollen =
         [min |-> [isNaN |-> FALSE, value |-> 0],
          max |-> [isNaN |-> FALSE, value |-> 0],
          mitte |-> [isNaN |-> FALSE, value |-> 0]]

\* Three data rows: two records, the second from the third row alone.
C39_Witness ==
  /\ soll.pc = "extracted" /\ Len(soll.table) = 4 /\ Len(soll.data) = 2
  /\ soll.table[4] = <<" Skill A ", "K", "1", "5", "3">>
  /\ soll.data[2].definition = "Skill A"
  /\ soll.data[2].koennen.max = [isNaN |-> FALSE, value |-> 5]
  /\ soll.data[2].wollen.max = [isNaN |-> FALSE, value |-> 0]

====
